---------------------------- MODULE Spec2Model ----------------------------
(***************************************************************************)
(* State machine of the Muse writing assistant: the App component          *)
(* (src/unnamed/part_001, lines 96-392), its FloatingMenu (lines 12-86)    *)
(* and the completion client (src/unnamed/part_000).                       *)
(*                                                                         *)
(* React semantics the model relies on:                                    *)
(*  - every handler is a closure over the state of the render in which it  *)
(*    was created; an async handler keeps reading that closure after its   *)
(*    await, so `content`, `selection`, `aiState` read after an await are  *)
(*    the values of the render in which the handler was invoked.  Only a   *)
(*    functional update (setX(prev => ...)) reads the current state.       *)
(*  - the state updates a handler makes between two awaits are committed   *)
(*    together: one action of the model per such segment.                  *)
(*  - the debounce effect (lines 238-244) re-runs, clearing the old timer  *)
(*    and starting a new one, whenever `content` or                        *)
(*    `triggerProactiveAnalysis` (re-created when `aiState` changes,       *)
(*    line 235) differs from the previous render.                          *)
(* Time is counted in ticks of 1000 ms.  Text is modelled by strings.      *)
(***************************************************************************)
EXTENDS Integers, Sequences, FiniteSets, TLC

VARIABLES
    content,       \* useState content, line 97
    aiState,       \* useState aiState, line 99
    suggestions,   \* useState suggestions, line 100
    draftPrompt,   \* useState draftPrompt, line 104
    draftFiles,    \* useState draftFiles, line 105
    selection,     \* useState selection, line 108
    menuPosition,  \* useState menuPosition, line 109
    calls,         \* provider calls awaiting their answer, with the closure of the awaiting handler
    reads,         \* handleFileSelect invocations awaiting a FileReader
    idleTimer,     \* the timer of the debounce effect, lines 239-243
    postTimers,    \* the one-shot timers of line 156, each with the ticks it has been pending (age)
    sinceChange,   \* ticks since `content` last changed (saturates at MaxSince)
    inputs,        \* user inputs counted against MaxInputs
    analysedBody,  \* an analysis call was made on `content` since it last changed
    last           \* the last step taken and what it observed

vars == <<content, aiState, suggestions, draftPrompt, draftFiles, selection,
          menuPosition, calls, reads, idleTimer, postTimers, sinceChange,
          inputs, analysedBody, last>>

-----------------------------------------------------------------------------
(* Bounds of the model *)

MaxInputs == 4

MaxFileSelects == 2

\* user inputs in the behaviours checked for liveness
MaxFairInputs == 3

MaxSince == 6

-----------------------------------------------------------------------------
(* Program constants *)

ReplaceThreshold == 50

AnalysisMinLength == 100

AnalyzeShortCircuit == 50

IdleDelayTicks == 5

PostDraftDelayTicks == 1

IDLE == "IDLE"

THINKING == "THINKING"

InitialContent == "Welcome to Muse. Start writing, or ask AI to draft something for you..."

Presets == {"Fix grammar", "Make longer", "Simplify"}

-----------------------------------------------------------------------------
(* Inputs drawn by the environment *)

Text100 == "0123456789012345678901234567890123456789012345678901234567890123456789012345678901234567890123456789"

\* values the user can leave in the editor textarea
EditValues == {"ABCDEF", Text100}

\* values the user can leave in the draft prompt textarea
PromptValues == {"", " ", "write"}

\* instructions typed into the floating menu's input
TypedInstructions == {" ", "punchier"}

\* a provider response without text (response.text is undefined)
NoText == [hasText |-> FALSE, text |-> ""]

\* a provider response whose response.text is t
WithText(t) == [hasText |-> TRUE, text |-> t]

\* the responses the provider can answer a draft request with
DraftResponses == {NoText, WithText("G"), WithText(Text100)}

\* the responses the provider can answer a refinement request with
RefineResponses == {NoText, WithText(""), WithText("xyz"), WithText(" xy ")}

\* ranges [start, end) the user can select in the textarea
Ranges == {<<1, 4>>, <<3, 60>>}

File1 == [name |-> "a.txt", mimeType |-> "text/plain", data |-> "data:text/plain;base64,QUJD"]

File2 == [name |-> "b.png", mimeType |-> "image/png", data |-> "data:image/png;base64,iVBORw0K"]

\* the file lists of a file-selection event
FileLists == {<<File1, File2>>}

RawItem1 == [type |-> "style", text |-> "Tighten", explanation |-> "Shorter is clearer"]

\* the item lists JSON.parse can yield from an analysis response
AnalysisResults == {<<RawItem1>>}

\* the values Date.now() can return, part_000 line 131
Timestamps == {1700000000}

MousePositions == {[top |-> 10, left |-> 20]}

-----------------------------------------------------------------------------
(* Values *)

NoSelection == [start |-> -1, end |-> -1, text |-> ""]

NoPosition == [top |-> -1, left |-> -1]

NoTimer == [left |-> -1, content |-> "", aiState |-> IDLE]

Min(a, b) == IF a < b THEN a ELSE b

Max(a, b) == IF a > b THEN a ELSE b

\* String.prototype.substring(from, to): both clamped to [0, length], swapped if from > to
Substring(s, from, to) ==
    LET f == Min(Max(from, 0), Len(s))
        t == Min(Max(to, 0), Len(s))
    IN  SubSeq(s, Min(f, t) + 1, Max(f, t))

\* String.prototype.substring(from)
SubstringFrom(s, from) == Substring(s, from, Len(s))

IsSpace(c) == c \in {" ", "\n", "\t"}

RECURSIVE TrimStart(_)
TrimStart(s) ==
    IF Len(s) > 0 /\ IsSpace(SubSeq(s, 1, 1)) THEN TrimStart(SubSeq(s, 2, Len(s))) ELSE s

RECURSIVE TrimEnd(_)
TrimEnd(s) ==
    IF Len(s) > 0 /\ IsSpace(SubSeq(s, Len(s), Len(s))) THEN TrimEnd(SubSeq(s, 1, Len(s) - 1)) ELSE s

\* String.prototype.trim()
Trim(s) == TrimEnd(TrimStart(s))

-----------------------------------------------------------------------------
(* The completion client, src/unnamed/part_000 *)

\* String.prototype.indexOf(pat, from): the first index >= from at which pat
\* occurs in s, or -1
RECURSIVE IndexOf(_, _, _)
IndexOf(s, pat, from) ==
    IF from + Len(pat) > Len(s) THEN -1
    ELSE IF SubSeq(s, from + 1, from + Len(pat)) = pat THEN from
    ELSE IndexOf(s, pat, from + 1)

\* String.prototype.includes(pat)
Includes(s, pat) == IndexOf(s, pat, 0) # -1

\* s ends with pat
EndsWith(s, pat) ==
    Len(pat) <= Len(s) /\ SubSeq(s, Len(s) - Len(pat) + 1, Len(s)) = pat

DataUrlMarker == "base64,"

\* s.split(DataUrlMarker)[1] for an s that includes the marker: what lies
\* between its first occurrence and the next one (or the end of s)
SplitSecond(s) ==
    LET rest == SubstringFrom(s, IndexOf(s, DataUrlMarker, 0) + Len(DataUrlMarker))
        j == IndexOf(rest, DataUrlMarker, 0)
    IN  IF j = -1 THEN rest ELSE Substring(rest, 0, j)

\* a generateDraft that sends the attachment's data as it is
Base64Data_AsIs(data) == data

\* base64Data of generateDraft, part_000 lines 24-26
Base64Data(data) ==
    IF Includes(data, DataUrlMarker) THEN SplitSecond(data) ELSE data

DraftInstruction ==
    "You are an expert writing partner. Write a high-quality draft based on the following instructions. \n\nInstructions: "

\* the parts generateDraft builds for its request, part_000 lines 19-37
GenerateDraftParts(prompt, attachments) ==
    (IF attachments = <<>>
       THEN <<>>
       ELSE [k \in 1..Len(attachments) |->
               [kind |-> "inlineData", mimeType |-> attachments[k].mimeType,
                data |-> Base64Data(attachments[k].data), text |-> ""]])
    \o <<[kind |-> "text", mimeType |-> "", data |-> "", text |-> DraftInstruction \o prompt]>>

\* generateDraft's return value: response.text || "", part_000 line 47
DraftResult(response) ==
    IF response.hasText /\ response.text # "" THEN response.text ELSE ""

\* refineSelection without the trim: response.text || selection
RefineResult_NoTrim(selectedText, response) ==
    IF response.hasText /\ response.text # "" THEN response.text ELSE selectedText

\* refineSelection's return value: response.text?.trim() || selection, part_000 line 84
RefineResult(selectedText, response) ==
    IF response.hasText /\ Trim(response.text) # "" THEN Trim(response.text) ELSE selectedText

\* rawData.map(...), part_000 lines 129-132: each item with its id
\* `sugg-${Date.now()}-${index}`
WithIds(rawData, now) ==
    IF rawData = <<>>
      THEN <<>>
      ELSE [k \in 1..Len(rawData) |->
              [id |-> <<"sugg", now, k - 1>>, type |-> rawData[k].type,
               text |-> rawData[k].text, explanation |-> rawData[k].explanation]]

-----------------------------------------------------------------------------
(* Closures and bookkeeping *)

NoCall ==
    [kind |-> "none", content |-> "", selection |-> NoSelection,
     draftPrompt |-> "", draftFiles |-> <<>>, aiState |-> IDLE, text |-> ""]

\* a pending generateDraft call: the prompt and attachments it was given (line
\* 146) and what handleDraftSubmit's closure reads after the await: content
\* (line 147) and the aiState of its triggerProactiveAnalysis (lines 156, 226)
DraftCall ==
    [NoCall EXCEPT !.kind = "draft", !.content = content, !.draftPrompt = draftPrompt,
                   !.draftFiles = draftFiles, !.aiState = aiState]

\* a pending refineSelection call and what handleInlineRefinement's closure
\* reads after the await: content and selection (lines 206-210)
RefineCall ==
    [NoCall EXCEPT !.kind = "refine", !.content = content, !.selection = selection]

\* a pending analyzeContentForSuggestions call and its argument (line 230)
AnalysisCall(textToAnalyze) ==
    [NoCall EXCEPT !.kind = "analysis", !.text = textToAnalyze]

RemoveAt(seq, i) == SubSeq(seq, 1, i - 1) \o SubSeq(seq, i + 1, Len(seq))

IsUserCall(c) == c.kind \in {"draft", "refine"}

\* the draft and refinement requests awaiting the provider
UserCalls == SelectSeq(calls, IsUserCall)

IsAnalysisCall(c) == c.kind = "analysis"

AnalysisCalls == SelectSeq(calls, IsAnalysisCall)

\* the record of a step: the state it started from and what it was given
Step(op, call, response, text, called, alert) ==
    [op |-> op, content |-> content, draftPrompt |-> draftPrompt,
     draftFiles |-> draftFiles, aiState |-> aiState, nPost |-> Len(postTimers),
     since |-> sinceChange, call |-> call, response |-> response, text |-> text,
     called |-> called, alert |-> alert, suggestions |-> suggestions,
     selection |-> selection, rawData |-> <<>>, now |-> 0]

\* the record of a step no claim looks into
Plain(op) ==
    [op |-> op, content |-> "", draftPrompt |-> "", draftFiles |-> <<>>,
     aiState |-> IDLE, nPost |-> 0, since |-> 0, call |-> NoCall,
     response |-> NoText, text |-> "",
     called |-> FALSE, alert |-> FALSE, suggestions |-> <<>>,
     selection |-> NoSelection, rawData |-> <<>>, now |-> 0]

\* a debounce effect whose only dependency is `content`
DebounceEffect_ContentOnly(c, a) ==
    IF c # content
      THEN [left |-> IdleDelayTicks, content |-> c, aiState |-> a]
      ELSE idleTimer

\* the debounce effect after a render with content c and aiState a
DebounceEffect(c, a) ==
    IF c # content \/ a # aiState
      THEN [left |-> IdleDelayTicks, content |-> c, aiState |-> a]
      ELSE idleTimer

SinceAfter(c) == IF c # content THEN 0 ELSE sinceChange

\* a render after which content is c and aiState is a
Render(c, a) ==
    /\ content' = c
    /\ aiState' = a
    /\ idleTimer' = DebounceEffect(c, a)
    /\ sinceChange' = SinceAfter(c)
    /\ analysedBody' = IF c # content THEN FALSE ELSE analysedBody

UserInput == inputs < MaxInputs /\ inputs' = inputs + 1

-----------------------------------------------------------------------------
(* Initial state: the first render and its effects *)

InitWith(used) ==
    /\ content = InitialContent
    /\ aiState = IDLE
    /\ suggestions = <<>>
    /\ draftPrompt = ""
    /\ draftFiles = <<>>
    /\ selection = NoSelection
    /\ menuPosition = NoPosition
    /\ calls = <<>>
    /\ reads = <<>>
    /\ idleTimer = [left |-> IdleDelayTicks, content |-> InitialContent, aiState |-> IDLE]
    /\ postTimers = <<>>
    /\ sinceChange = 0
    /\ inputs = used
    /\ analysedBody = FALSE
    /\ last = Plain("Init")

Init == InitWith(0)

\* the same first render, with MaxFairInputs user inputs to come
FairInit == InitWith(MaxInputs - MaxFairInputs)

-----------------------------------------------------------------------------
(* Editing *)

\* an edit that clears and restarts the pending post-draft timers, as the
\* debounce effect does with the idle timer
Edit_RestartsPostTimers(v) ==
    /\ UserInput
    /\ v # content
    /\ Render(v, aiState)
    /\ selection' = NoSelection
    /\ menuPosition' = NoPosition
    /\ postTimers' = IF postTimers = <<>>
                       THEN <<>>
                       ELSE [i \in 1..Len(postTimers) |->
                               [postTimers[i] EXCEPT !.left = PostDraftDelayTicks]]
    /\ last' = Plain("Edit")
    /\ UNCHANGED <<suggestions, draftPrompt, draftFiles, calls, reads>>

\* the user edits the body: textarea onChange (line 372), then the onSelect of
\* the caret the edit leaves (line 373), which is collapsed, so that
\* handleSelectionChange takes its else branch (lines 179-182)
Edit(v) ==
    /\ UserInput
    /\ v # content
    /\ Render(v, aiState)
    /\ selection' = NoSelection
    /\ menuPosition' = NoPosition
    /\ last' = Plain("Edit")
    /\ UNCHANGED <<suggestions, draftPrompt, draftFiles, calls, reads, postTimers>>

\* draft prompt textarea onChange, line 266
SetDraftPrompt(p) ==
    /\ UserInput
    /\ p # draftPrompt
    /\ draftPrompt' = p
    /\ last' = Plain("SetDraftPrompt")
    /\ UNCHANGED <<analysedBody, content, aiState, suggestions, draftFiles, selection,
                   menuPosition, calls, reads, idleTimer, postTimers, sinceChange>>

-----------------------------------------------------------------------------
(* File handling, lines 114-137 *)

\* handleFileSelect up to its first await: the first FileReader is started
FileSelect(files) ==
    /\ UserInput
    /\ Len(reads) < MaxFileSelects
    /\ reads' = Append(reads, [files |-> files, next |-> 1, newAttachments |-> <<>>, done |-> FALSE])
    /\ last' = Plain("FileSelect")
    /\ UNCHANGED <<analysedBody, content, aiState, suggestions, draftPrompt, draftFiles,
                   selection, menuPosition, calls, idleTimer, postTimers, sinceChange>>

\* reader.onload of the file being read by invocation i, and the handler's
\* continuation: the next reader is started, or setDraftFiles runs (line 135)
FileLoaded(i) ==
    LET r == reads[i]
        f == r.files[r.next]
        atts == IF f.data # "" THEN Append(r.newAttachments, f) ELSE r.newAttachments
        finished == r.next = Len(r.files)
    IN  /\ ~r.done
        /\ reads' = [reads EXCEPT ![i] = [r EXCEPT !.next = r.next + 1,
                                                   !.newAttachments = atts,
                                                   !.done = finished]]
        /\ draftFiles' = IF finished THEN draftFiles \o atts ELSE draftFiles
        /\ last' = Plain("FileLoaded")
        /\ UNCHANGED <<analysedBody, content, aiState, suggestions, draftPrompt, selection,
                       menuPosition, calls, idleTimer, postTimers, sinceChange, inputs>>

-----------------------------------------------------------------------------
(* Selection and the floating menu *)

\* handleMouseUp with a non-empty range in the textarea, lines 185-199
MouseUp(r, pos) ==
    /\ UserInput
    /\ r[1] < r[2] /\ r[2] <= Len(content)
    /\ selection' = [start |-> r[1], end |-> r[2], text |-> Substring(content, r[1], r[2])]
    /\ menuPosition' = pos
    /\ last' = Plain("MouseUp")
    /\ UNCHANGED <<analysedBody, content, aiState, suggestions, draftPrompt, draftFiles, calls,
                   reads, idleTimer, postTimers, sinceChange>>

\* setSelection(null); setMenuPosition(null), lines 180-181, 364-365 and 385
ClearSelection(op) ==
    /\ UserInput
    /\ selection # NoSelection \/ menuPosition # NoPosition
    /\ selection' = NoSelection
    /\ menuPosition' = NoPosition
    /\ last' = Plain(op)
    /\ UNCHANGED <<analysedBody, content, aiState, suggestions, draftPrompt, draftFiles, calls,
                   reads, idleTimer, postTimers, sinceChange>>

\* handleSelectionChange with a collapsed range, lines 166-183
SelectionCollapse == ClearSelection("SelectionCollapse")

\* main onClick with no browser-level selection, lines 361-367
OutsideClick == ClearSelection("OutsideClick")

\* an onClose that only hides the menu
MenuClose_KeepsSelection ==
    /\ UserInput
    /\ menuPosition # NoPosition
    /\ menuPosition' = NoPosition
    /\ last' = Plain("MenuClose")
    /\ UNCHANGED <<analysedBody, content, aiState, suggestions, draftPrompt, draftFiles, selection,
                   calls, reads, idleTimer, postTimers, sinceChange>>

\* FloatingMenu onClose, line 385; the menu renders only with a position (line 22)
MenuClose ==
    /\ menuPosition # NoPosition
    /\ ClearSelection("MenuClose")

-----------------------------------------------------------------------------
(* Inline refinement *)

\* handleInlineRefinement up to its await, lines 201-206
handleInlineRefinement(instruction, op) ==
    /\ selection # NoSelection
    /\ calls' = Append(calls, RefineCall)
    /\ Render(content, THINKING)
    /\ last' = Plain(op)
    /\ UNCHANGED <<suggestions, draftPrompt, draftFiles, selection, menuPosition,
                   reads, postTimers>>

\* FloatingMenu handleSubmit, lines 24-30; input and button are disabled while
\* THINKING (lines 57, 61)
RefineSubmitTyped(instruction) ==
    /\ UserInput
    /\ menuPosition # NoPosition
    /\ aiState # THINKING
    /\ Trim(instruction) # ""
    /\ handleInlineRefinement(instruction, "RefineSubmitTyped")

\* a preset button's onClick, lines 73-82: no disabled attribute
RefinePreset(preset) ==
    /\ UserInput
    /\ menuPosition # NoPosition
    /\ handleInlineRefinement(preset, "RefinePreset")

\* handleInlineRefinement after refineSelection resolved, lines 206-215 and 219
RefineSuccess(i, response) ==
    LET c == calls[i]
        newText == RefineResult(c.selection.text, response)
        before == Substring(c.content, 0, c.selection.start)
        after == SubstringFrom(c.content, c.selection.end)
        updatedContent == before \o newText \o after
    IN  /\ c.kind = "refine"
        /\ calls' = RemoveAt(calls, i)
        /\ Render(updatedContent, IDLE)
        /\ selection' = NoSelection
        /\ menuPosition' = NoPosition
        /\ last' = Step("RefineSuccess", c, response, "", FALSE, FALSE)
        /\ UNCHANGED <<suggestions, draftPrompt, draftFiles, reads, postTimers, inputs>>

\* a handleInlineRefinement whose catch applies the fallback splice
RefineFail_Splices(i) ==
    LET c == calls[i]
        updatedContent == Substring(c.content, 0, c.selection.start) \o c.selection.text
                            \o SubstringFrom(c.content, c.selection.end)
    IN  /\ c.kind = "refine"
        /\ calls' = RemoveAt(calls, i)
        /\ Render(updatedContent, IDLE)
        /\ last' = Step("RefineFail", c, NoText, "", FALSE, FALSE)
        /\ UNCHANGED <<suggestions, draftPrompt, draftFiles, selection, menuPosition,
                       reads, postTimers, inputs>>

\* handleInlineRefinement after refineSelection threw, lines 216-220
RefineFail(i) ==
    LET c == calls[i]
    IN  /\ c.kind = "refine"
        /\ calls' = RemoveAt(calls, i)
        /\ Render(content, IDLE)
        /\ last' = Step("RefineFail", c, NoText, "", FALSE, FALSE)
        /\ UNCHANGED <<suggestions, draftPrompt, draftFiles, selection, menuPosition,
                       reads, postTimers, inputs>>

-----------------------------------------------------------------------------
(* Drafting *)

\* handleDraftSubmit up to its await, lines 140-146; the submit button is
\* disabled unless aiState is IDLE and the prompt is non-empty (line 286)
DraftSubmit ==
    /\ UserInput
    /\ aiState = IDLE /\ draftPrompt # ""
    /\ Trim(draftPrompt) # ""
    /\ calls' = Append(calls, DraftCall)
    /\ Render(content, THINKING)
    /\ last' = Plain("DraftSubmit")
    /\ UNCHANGED <<suggestions, draftPrompt, draftFiles, selection, menuPosition,
                   reads, postTimers>>

\* handleDraftSubmit after generateDraft resolved, lines 146-156 and 161
DraftSuccess(i, response) ==
    LET c == calls[i]
        generatedText == DraftResult(response)
        merged == IF Len(c.content) < ReplaceThreshold
                    THEN generatedText
                    ELSE content \o "\n\n" \o generatedText
    IN  /\ c.kind = "draft"
        /\ calls' = RemoveAt(calls, i)
        /\ Render(merged, IDLE)
        /\ draftPrompt' = ""
        /\ draftFiles' = <<>>
        /\ postTimers' = Append(postTimers, [left |-> PostDraftDelayTicks,
                                             text |-> generatedText,
                                             aiState |-> c.aiState,
                                             age |-> 0])
        /\ last' = Step("DraftSuccess", c, response, "", FALSE, FALSE)
        /\ UNCHANGED <<suggestions, selection, menuPosition, reads, inputs>>

\* a handleDraftSubmit that resets aiState at the end of its try block only
DraftFail_NoFinally(i) ==
    LET c == calls[i]
    IN  /\ c.kind = "draft"
        /\ calls' = RemoveAt(calls, i)
        /\ Render(content, aiState)
        /\ last' = Step("DraftFail", c, NoText, "", FALSE, TRUE)
        /\ UNCHANGED <<suggestions, draftPrompt, draftFiles, selection, menuPosition,
                       reads, postTimers, inputs>>

\* a handleDraftSubmit that clears the form after its try block
DraftFail_ClearsForm(i) ==
    LET c == calls[i]
    IN  /\ c.kind = "draft"
        /\ calls' = RemoveAt(calls, i)
        /\ Render(content, IDLE)
        /\ draftPrompt' = ""
        /\ draftFiles' = <<>>
        /\ last' = Step("DraftFail", c, NoText, "", FALSE, TRUE)
        /\ UNCHANGED <<suggestions, selection, menuPosition, reads, postTimers, inputs>>

\* handleDraftSubmit after generateDraft threw, lines 157-162
DraftFail(i) ==
    LET c == calls[i]
    IN  /\ c.kind = "draft"
        /\ calls' = RemoveAt(calls, i)
        /\ Render(content, IDLE)
        /\ last' = Step("DraftFail", c, NoText, "", FALSE, TRUE)
        /\ UNCHANGED <<suggestions, draftPrompt, draftFiles, selection, menuPosition,
                       reads, postTimers, inputs>>

-----------------------------------------------------------------------------
(* Proactive analysis *)

\* the guard of triggerProactiveAnalysis, line 226, in a closure whose aiState is a
AnalysisAllowed(textToAnalyze, a) ==
    ~(Len(textToAnalyze) < AnalysisMinLength \/ a # IDLE)

\* an analyzeContentForSuggestions that returns early for the empty content only
AnalyzeShort_EmptyOnly(c) == c = ""

\* the early return of analyzeContentForSuggestions, part_000 line 98
AnalyzeShort(c) == c = "" \/ Len(c) < AnalyzeShortCircuit

\* analyzeContentForSuggestions(c) up to its await, part_000 lines 98-101, seen
\* from a caller that stores the result in suggestions: either it resolves to
\* [] at once, without a provider call, or the provider is called
analyzeContentForSuggestions(c) ==
    /\ calls' = IF AnalyzeShort(c) THEN calls ELSE Append(calls, AnalysisCall(c))
    /\ suggestions' = IF AnalyzeShort(c) THEN <<>> ELSE suggestions

\* triggerProactiveAnalysis up to its await, lines 224-230
TriggerProactiveAnalysis(op, textToAnalyze, a) ==
    /\ IF AnalysisAllowed(textToAnalyze, a)
         THEN analyzeContentForSuggestions(textToAnalyze)
         ELSE UNCHANGED <<calls, suggestions>>
    /\ analysedBody' = (analysedBody \/ (AnalysisAllowed(textToAnalyze, a) /\ textToAnalyze = content))
    /\ last' = Step(op, NoCall, NoText, textToAnalyze, AnalysisAllowed(textToAnalyze, a), FALSE)

\* the debounce timer's callback, lines 239-241
IdleTimerFire ==
    /\ idleTimer.left = 0
    /\ idleTimer' = NoTimer
    /\ TriggerProactiveAnalysis("IdleTimerFire", idleTimer.content, idleTimer.aiState)
    /\ UNCHANGED <<content, aiState, draftPrompt, draftFiles, selection, menuPosition,
                   reads, postTimers, sinceChange, inputs>>

\* the post-draft timer's callback, line 156
PostTimerFire(i) ==
    /\ postTimers[i].left = 0
    /\ postTimers' = RemoveAt(postTimers, i)
    /\ TriggerProactiveAnalysis("PostTimerFire", postTimers[i].text, postTimers[i].aiState)
    /\ UNCHANGED <<content, aiState, draftPrompt, draftFiles, selection, menuPosition,
                   reads, idleTimer, sinceChange, inputs>>

\* a triggerProactiveAnalysis that adds the new suggestions to the ones held
AnalysisReturn_Merges(i, rawData, now) ==
    /\ calls[i].kind = "analysis"
    /\ calls' = RemoveAt(calls, i)
    /\ suggestions' = suggestions \o WithIds(rawData, now)
    /\ last' = [Step("AnalysisReturn", calls[i], NoText, "", FALSE, FALSE)
                   EXCEPT !.rawData = rawData, !.now = now]
    /\ UNCHANGED <<analysedBody, content, aiState, draftPrompt, draftFiles, selection, menuPosition,
                   reads, idleTimer, postTimers, sinceChange, inputs>>

\* triggerProactiveAnalysis after analyzeContentForSuggestions resolved with the
\* parsed items, line 231
AnalysisReturn(i, rawData, now) ==
    /\ calls[i].kind = "analysis"
    /\ calls' = RemoveAt(calls, i)
    /\ suggestions' = WithIds(rawData, now)
    /\ last' = [Step("AnalysisReturn", calls[i], NoText, "", FALSE, FALSE)
                   EXCEPT !.rawData = rawData, !.now = now]
    /\ UNCHANGED <<analysedBody, content, aiState, draftPrompt, draftFiles, selection, menuPosition,
                   reads, idleTimer, postTimers, sinceChange, inputs>>

\* a triggerProactiveAnalysis that surfaces the failure in aiState
AnalysisError_SetsError(i) ==
    /\ calls[i].kind = "analysis"
    /\ calls' = RemoveAt(calls, i)
    /\ suggestions' = <<>>
    /\ aiState' = "ERROR"
    /\ last' = Step("AnalysisError", calls[i], NoText, "", FALSE, FALSE)
    /\ UNCHANGED <<analysedBody, content, draftPrompt, draftFiles, selection, menuPosition,
                   reads, idleTimer, postTimers, sinceChange, inputs>>

\* the provider call or JSON.parse threw: analyzeContentForSuggestions resolves
\* to [], part_000 lines 134-137
AnalysisError(i) ==
    /\ calls[i].kind = "analysis"
    /\ calls' = RemoveAt(calls, i)
    /\ suggestions' = <<>>
    /\ last' = Step("AnalysisError", calls[i], NoText, "", FALSE, FALSE)
    /\ UNCHANGED <<analysedBody, content, aiState, draftPrompt, draftFiles, selection, menuPosition,
                   reads, idleTimer, postTimers, sinceChange, inputs>>

-----------------------------------------------------------------------------
(* Time *)

TimerPending == idleTimer.left > 0 \/ \E i \in 1..Len(postTimers) : postTimers[i].left > 0

TimerDue == idleTimer.left = 0 \/ \E i \in 1..Len(postTimers) : postTimers[i].left = 0

\* 1000 ms pass; a due timer runs before time moves on
Tick ==
    /\ TimerPending /\ ~TimerDue
    /\ idleTimer' = IF idleTimer.left > 0 THEN [idleTimer EXCEPT !.left = @ - 1] ELSE idleTimer
    /\ postTimers' = IF postTimers = <<>>
                       THEN <<>>
                       ELSE [i \in 1..Len(postTimers) |->
                               [postTimers[i] EXCEPT !.left = @ - 1, !.age = @ + 1]]
    /\ sinceChange' = Min(sinceChange + 1, MaxSince)
    /\ last' = Plain("Tick")
    /\ UNCHANGED <<analysedBody, content, aiState, suggestions, draftPrompt, draftFiles, selection,
                   menuPosition, calls, reads, inputs>>

-----------------------------------------------------------------------------

Next ==
    \/ \E v \in EditValues : Edit(v)
    \/ \E p \in PromptValues : SetDraftPrompt(p)
    \/ \E fs \in FileLists : FileSelect(fs)
    \/ \E i \in 1..Len(reads) : FileLoaded(i)
    \/ \E r \in Ranges, pos \in MousePositions : MouseUp(r, pos)
    \/ SelectionCollapse
    \/ OutsideClick
    \/ MenuClose
    \/ \E s \in TypedInstructions : RefineSubmitTyped(s)
    \/ \E p \in Presets : RefinePreset(p)
    \/ DraftSubmit
    \/ \E i \in 1..Len(calls), t \in DraftResponses : DraftSuccess(i, t)
    \/ \E i \in 1..Len(calls) : DraftFail(i)
    \/ \E i \in 1..Len(calls), t \in RefineResponses : RefineSuccess(i, t)
    \/ \E i \in 1..Len(calls) : RefineFail(i)
    \/ IdleTimerFire
    \/ \E i \in 1..Len(postTimers) : PostTimerFire(i)
    \/ \E i \in 1..Len(calls), d \in AnalysisResults, now \in Timestamps : AnalysisReturn(i, d, now)
    \/ \E i \in 1..Len(calls) : AnalysisError(i)
    \/ Tick

\* the provider answers a draft or refinement request
Respond ==
    \E i \in 1..Len(calls) :
        \/ \E t \in DraftResponses : DraftSuccess(i, t)
        \/ DraftFail(i)
        \/ \E t \in RefineResponses : RefineSuccess(i, t)
        \/ RefineFail(i)

Spec == Init /\ [][Next]_vars

-----------------------------------------------------------------------------
(* analyzeContentForSuggestions on its own: the function applied to contents *)
(* of every length up to 100, by a caller that holds earlier suggestions     *)

\* the contents the function is applied to: the prefixes of Text100
AnalyzeInputs == {Substring(Text100, 0, n) : n \in 0..Len(Text100)}

AnalyzeInit ==
    /\ content \in AnalyzeInputs
    /\ aiState = IDLE
    /\ suggestions = WithIds(<<RawItem1>>, 0)
    /\ draftPrompt = ""
    /\ draftFiles = <<>>
    /\ selection = NoSelection
    /\ menuPosition = NoPosition
    /\ calls = <<>>
    /\ reads = <<>>
    /\ idleTimer = NoTimer
    /\ postTimers = <<>>
    /\ sinceChange = 0
    /\ inputs = 0
    /\ analysedBody = FALSE
    /\ last = Plain("Init")

\* the call analyzeContentForSuggestions(content)
AnalyzeContent ==
    /\ last.op = "Init"
    /\ analyzeContentForSuggestions(content)
    /\ last' = Step("AnalyzeContent", NoCall, NoText, content, ~AnalyzeShort(content), FALSE)
    /\ UNCHANGED <<analysedBody, content, aiState, draftPrompt, draftFiles, selection, menuPosition,
                   reads, idleTimer, postTimers, sinceChange, inputs>>

AnalyzeNext ==
    \/ AnalyzeContent
    \/ \E i \in 1..Len(calls), d \in AnalysisResults, now \in Timestamps : AnalysisReturn(i, d, now)
    \/ \E i \in 1..Len(calls) : AnalysisError(i)

AnalyzeSpec == AnalyzeInit /\ [][AnalyzeNext]_vars

\* the provider eventually answers outstanding draft and refinement requests
FairSpec == FairInit /\ [][Next]_vars /\ WF_vars(Respond)

\* in addition time passes and the callback of a due timer runs
LiveSpec ==
    /\ FairInit
    /\ [][Next]_vars
    /\ WF_vars(Respond)
    /\ WF_vars(Tick)
    /\ WF_vars(IdleTimerFire)
    /\ WF_vars(\E i \in 1..Len(postTimers) : PostTimerFire(i))

-----------------------------------------------------------------------------
(* Claims *)

\* C1: mutual exclusion.  While a draft or refinement request is outstanding a
\* further submit starts no second provider call: at most one user-initiated
\* request is ever outstanding.
C1_MutualExclusion == Len(UserCalls) <= 1

\* C2: guaranteed cleanup.  Provided the provider answers outstanding requests,
\* every state with aiState = THINKING is followed by one with aiState = IDLE,
\* and aiState is IDLE whenever no draft or refinement request is outstanding.
C2_GuaranteedCleanup ==
    /\ (aiState = THINKING) ~> (aiState = IDLE)
    /\ [](Len(UserCalls) = 0 => aiState = IDLE)

\* a failed request has just reset a THINKING aiState
C2_Witness ==
    /\ last.op \in {"DraftFail", "RefineFail"}
    /\ last.aiState = THINKING
    /\ aiState = IDLE

\* C3: draft-merge rule.  After a successful draft the body is the generated
\* text alone if the body current at merge time was shorter than 50, and
\* otherwise that current body, a blank line and the generated text.
C3_DraftMergeRule ==
    last.op = "DraftSuccess" =>
        content = IF Len(last.content) < ReplaceThreshold
                    THEN DraftResult(last.response)
                    ELSE last.content \o "\n\n" \o DraftResult(last.response)

\* C4 as claimed: with the body B unchanged in flight and a non-empty provider
\* text R, the body after the response is B[0:start] + R + B[end:].
C4_SpliceAsReturned ==
    (/\ last.op = "RefineSuccess"
     /\ last.content = last.call.content
     /\ last.response.hasText /\ last.response.text # "") =>
        content = Substring(last.call.content, 0, last.call.selection.start)
                    \o last.response.text
                    \o SubstringFrom(last.call.content, last.call.selection.end)

\* C4 as amended: with the body B unchanged in flight and a provider text R
\* whose whitespace-trimmed form T is non-empty, the body after the response
\* is B[0:start] + T + B[end:].
C4_SpliceTrimmed ==
    (/\ last.op = "RefineSuccess"
     /\ last.content = last.call.content
     /\ last.response.hasText /\ Trim(last.response.text) # "") =>
        content = Substring(last.call.content, 0, last.call.selection.start)
                    \o Trim(last.response.text)
                    \o SubstringFrom(last.call.content, last.call.selection.end)

\* a refinement answered with text in surrounding whitespace, body unchanged in flight
C4_Witness ==
    /\ last.op = "RefineSuccess"
    /\ last.content = last.call.content
    /\ last.call.content = InitialContent
    /\ last.call.selection.start = 1 /\ last.call.selection.end = 4
    /\ last.response = WithText(" xy ")
    /\ content = "Wxyome to Muse. Start writing, or ask AI to draft something for you..."

\* C5: on a refinement response the returned text replaces [start, end) of the
\* body as it is at response time, so that changes made in flight are kept.
C5_SpliceIntoCurrent ==
    last.op = "RefineSuccess" =>
        content = Substring(last.content, 0, last.call.selection.start)
                    \o RefineResult(last.call.selection.text, last.response)
                    \o SubstringFrom(last.content, last.call.selection.end)

\* C6: empty-result fallback.  For an empty provider text refineSelection
\* returns the selected text, and the refinement leaves the body as it was
\* immediately before the response.
C6_EmptyResultFallback ==
    (last.op = "RefineSuccess" /\ (~last.response.hasText \/ last.response.text = "")) =>
        /\ RefineResult(last.call.selection.text, last.response) = last.call.selection.text
        /\ content = last.content

\* C7: a failed refinement leaves the body as it was immediately before the
\* failure and sets aiState to IDLE.
C7_RefineFailure ==
    last.op = "RefineFail" => (content = last.content /\ aiState = IDLE)

\* a refinement failed after the body was changed in flight
C7_Witness ==
    /\ last.op = "RefineFail"
    /\ last.call.content # last.content
    /\ last.aiState = THINKING

\* C8: a failed draft leaves body, prompt and attachments as they were
\* immediately before the failure, raises an error notification, schedules no
\* post-draft analysis and sets aiState to IDLE.
C8_DraftFailure ==
    last.op = "DraftFail" =>
        /\ content = last.content
        /\ draftPrompt = last.draftPrompt
        /\ draftFiles = last.draftFiles
        /\ last.alert
        /\ Len(postTimers) = last.nPost
        /\ aiState = IDLE

\* a draft with attachments failed
C8_Witness ==
    /\ last.op = "DraftFail"
    /\ draftPrompt # ""
    /\ draftFiles # <<>>
    /\ last.aiState = THINKING

\* C9: debounce.  The analysis call of the idle timer is made exactly 5 seconds
\* after the last change of the body.
C9_Debounce ==
    (last.op = "IdleTimerFire" /\ last.called) => last.since = IdleDelayTicks

\* C10: analysis guard.  Every proactive analysis call, from the idle timer or
\* from the post-draft trigger, is made with a text of length >= 100 and while
\* the current aiState is IDLE.
C10_AnalysisGuard ==
    (last.op \in {"IdleTimerFire", "PostTimerFire"} /\ last.called) =>
        (Len(last.text) >= AnalysisMinLength /\ last.aiState = IDLE)

\* C11: selection validity.  In every reachable state the held selection is
\* none or satisfies 0 <= start <= end <= Len(content) for the current body
\* (which a draft merge or a refinement splice that left the selection in place
\* would break).
C11_SelectionValid ==
    selection # NoSelection =>
        (0 <= selection.start /\ selection.start <= selection.end
           /\ selection.end <= Len(content))

\* C12: attachment reads gate submission.  A draft is submitted only when no
\* file read of a file-selection event is still in progress.
C12_ReadsGateSubmit ==
    last.op = "DraftSubmit" => \A i \in 1..Len(reads) : reads[i].done

\* C13: analysis deduplication.  At most one proactive analysis request is
\* outstanding at any time.
C13_AnalysisDedup == Len(AnalysisCalls) <= 1

\* C14: post-draft one-shot analysis.  Every successful draft schedules exactly
\* one analysis trigger, a failed draft schedules none; the trigger fires when
\* it has been pending for 1 second, neither earlier nor later, and no step
\* other than the draft's completion, the passing of time and the firing itself
\* (in particular no edit of the body) touches the pending triggers.
C14_PostDraftOneShot ==
    /\ [](last.op = "DraftSuccess" =>
            /\ Len(postTimers) = last.nPost + 1
            /\ postTimers[Len(postTimers)].left = PostDraftDelayTicks
            /\ postTimers[Len(postTimers)].age = 0
            /\ postTimers[Len(postTimers)].text = DraftResult(last.response))
    /\ [](last.op = "DraftFail" => Len(postTimers) = last.nPost)
    /\ [](\A i \in 1..Len(postTimers) : postTimers[i].age <= PostDraftDelayTicks)
    /\ [][\A i \in 1..Len(postTimers) :
            PostTimerFire(i) => postTimers[i].age = PostDraftDelayTicks]_vars
    /\ [][postTimers' # postTimers =>
            last'.op \in {"DraftSuccess", "Tick", "PostTimerFire"}]_vars

\* the post-draft trigger of a 100-character draft fires after the user has
\* replaced the merged body
C14_Witness ==
    /\ last.op = "PostTimerFire"
    /\ last.text = Text100
    /\ content = "ABCDEF"

\* C15: suggestions are last-write-wins and replaced wholesale.  When an
\* analysis result arrives the suggestions become exactly that result (the
\* parsed items with their ids, or the empty sequence after a provider or parse
\* failure), whatever was held before and whatever happened since the request
\* was issued; no other step changes the suggestions.
C15_SuggestionsReplaced ==
    /\ [](last.op = "AnalysisReturn" => suggestions = WithIds(last.rawData, last.now))
    /\ [](last.op = "AnalysisError" => suggestions = <<>>)
    /\ [][suggestions' # suggestions =>
            last'.op \in {"AnalysisReturn", "AnalysisError"}]_vars

\* a result arrives while suggestions of an earlier analysis are held and
\* after the body was changed since the request was issued
C15_Witness ==
    /\ last.op = "AnalysisReturn"
    /\ last.suggestions # <<>>
    /\ last.call.text # last.content
    /\ suggestions = WithIds(<<RawItem1>>, 1700000000)

\* C16: proactive analysis is silent.  No step of an analysis (its start from a
\* timer, the arrival of its result, its failure) changes aiState, the body,
\* the selection, the menu anchor, the draft prompt or the attachments; a
\* failure yields empty suggestions and no error notification; and while an
\* analysis is outstanding a draft submit (with a prompt) and a refinement
\* submit (with a selection) are possible whenever aiState is IDLE.
C16_AnalysisSilent ==
    /\ [][last'.op \in {"IdleTimerFire", "PostTimerFire", "AnalysisReturn", "AnalysisError"} =>
            UNCHANGED <<content, aiState, selection, menuPosition, draftPrompt, draftFiles>>]_vars
    /\ [](last.op = "AnalysisError" => (suggestions = <<>> /\ ~last.alert /\ aiState = last.aiState))
    /\ []((Len(AnalysisCalls) > 0 /\ aiState = IDLE /\ inputs < MaxInputs) =>
            /\ Trim(draftPrompt) # "" => ENABLED DraftSubmit
            /\ selection # NoSelection /\ menuPosition # NoPosition =>
                  ENABLED (\E t \in TypedInstructions : RefineSubmitTyped(t)))

\* an analysis fails while a user request is outstanding and suggestions of an
\* earlier analysis are held
C16_Witness ==
    /\ last.op = "AnalysisError"
    /\ last.suggestions # <<>>
    /\ suggestions = <<>>
    /\ Len(UserCalls) = 1
    /\ aiState = THINKING

\* the request parts of the pending draft call c have the shape C17 describes:
\* one inline-data part per attachment, in order, then one instruction part
\* that contains the prompt
DraftPartsShape(c) ==
    LET parts == GenerateDraftParts(c.draftPrompt, c.draftFiles)
        n == Len(c.draftFiles)
    IN  /\ Len(parts) = n + 1
        /\ \A k \in 1..n : parts[k].kind = "inlineData" /\ parts[k].mimeType = c.draftFiles[k].mimeType
        /\ parts[n + 1].kind = "text"
        /\ EndsWith(parts[n + 1].text, c.draftPrompt)

\* C17 as claimed: the request of every draft call has len(A) + 1 parts, part
\* i carrying the i-th attachment's MIME type and its data, in the order of A,
\* followed by the single instruction part with the prompt.
C17_PartsCarryData ==
    \A i \in 1..Len(calls) :
        calls[i].kind = "draft" =>
            /\ DraftPartsShape(calls[i])
            /\ \A k \in 1..Len(calls[i].draftFiles) :
                  GenerateDraftParts(calls[i].draftPrompt, calls[i].draftFiles)[k].data
                    = calls[i].draftFiles[k].data

\* C17 as amended: as above, but part i carries the i-th attachment's data
\* without its data-URL header: the attachment's data is a header, empty or
\* ending in "base64,", followed by the part's data, which holds no "base64,".
C17_PartsCarryPayload ==
    \A i \in 1..Len(calls) :
        calls[i].kind = "draft" =>
            /\ DraftPartsShape(calls[i])
            /\ \A k \in 1..Len(calls[i].draftFiles) :
                  LET d == calls[i].draftFiles[k].data
                      sent == GenerateDraftParts(calls[i].draftPrompt, calls[i].draftFiles)[k].data
                      header == Substring(d, 0, Len(d) - Len(sent))
                  IN  /\ d = header \o sent
                      /\ header = "" \/ EndsWith(header, DataUrlMarker)
                      /\ ~Includes(sent, DataUrlMarker)

\* a draft request is outstanding whose attachments are the same two files
\* selected twice
C17_Witness ==
    \E i \in 1..Len(calls) :
        /\ calls[i].kind = "draft"
        /\ calls[i].draftFiles = <<File1, File2, File1, File2>>
        /\ GenerateDraftParts(calls[i].draftPrompt, calls[i].draftFiles) =
             <<[kind |-> "inlineData", mimeType |-> "text/plain", data |-> "QUJD", text |-> ""],
               [kind |-> "inlineData", mimeType |-> "image/png", data |-> "iVBORw0K", text |-> ""],
               [kind |-> "inlineData", mimeType |-> "text/plain", data |-> "QUJD", text |-> ""],
               [kind |-> "inlineData", mimeType |-> "image/png", data |-> "iVBORw0K", text |-> ""],
               [kind |-> "text", mimeType |-> "", data |-> "", text |-> DraftInstruction \o "write"]>>

\* C18: for every content C with Len(C) < 50, analyzeContentForSuggestions(C)
\* returns the empty sequence and makes no provider call.
C18_ShortContent ==
    (last.op = "AnalyzeContent" /\ Len(last.text) < 50) =>
        (suggestions = <<>> /\ ~last.called /\ calls = <<>>)

\* the function was applied to a content of 49 characters by a caller holding
\* suggestions
C18_Witness ==
    /\ last.op = "AnalyzeContent"
    /\ Len(last.text) = 49
    /\ last.suggestions # <<>>
    /\ suggestions = <<>>

\* C19: flag accuracy.  Whenever a draft or refinement request is outstanding,
\* aiState is THINKING.
C19_FlagAccuracy == Len(UserCalls) > 0 => aiState = THINKING

\* C20: selection and menu anchor move together.  In every reachable state the
\* selection is none exactly if the menu anchor is none, and every step that
\* sets or clears one of them sets or clears the other.
C20_SelectionWithAnchor ==
    /\ []((selection = NoSelection) <=> (menuPosition = NoPosition))
    /\ [][((selection' = NoSelection) # (selection = NoSelection))
            <=> ((menuPosition' = NoPosition) # (menuPosition = NoPosition))]_vars

\* the menu was closed while a selection was held
C20_Witness ==
    /\ last.op = "MenuClose"
    /\ selection = NoSelection
    /\ menuPosition = NoPosition

\* C21: no lost analysis.  Provided requests are answered, time passes and due
\* timers run: once the body no longer changes and has length >= 100, an
\* analysis call on that body is made; and an idle-timer expiry that was
\* skipped because aiState was not IDLE is followed by a new idle timer,
\* started when aiState is IDLE again.
C21_NoLostAnalysis ==
    /\ <>[](Len(content) >= AnalysisMinLength => analysedBody)
    /\ (last.op = "IdleTimerFire" /\ ~last.called /\ last.aiState # IDLE)
          ~> (idleTimer.left = IdleDelayTicks /\ idleTimer.aiState = IDLE
                /\ idleTimer.content = content)

\* the idle timer makes its call on the current body later than 5 seconds
\* after the body's last change: the timer that made it was started by a change
\* of aiState
C21_Witness ==
    /\ last.op = "IdleTimerFire"
    /\ last.called
    /\ last.text = content
    /\ last.since > IdleDelayTicks
    /\ analysedBody

=============================================================================
